---- MODULE Spec2Model ----
(***************************************************************************)
(* Model of classifiles: the type-resolution cascade (Classifier and       *)
(* MimeInfoDb), the collision-safe placement of links (link_to_output)     *)
(* and the symlink backup/restore codec (BackupProcessor,                  *)
(* RestoreProcessor).                                                      *)
(*                                                                         *)
(* Strings (file names, extensions, mime types, glob patterns) are         *)
(* sequences of one-character strings; byte strings are sequences of       *)
(* numbers; a path is a sequence of names (its components).                *)
(***************************************************************************)
EXTENDS Integers, Sequences, FiniteSets, TLC

VARIABLES
    fs,          \* the filesystem: path -> [kind, data]
    pc,          \* position of the run: "idle", "scan", "backup", "restore", "done", "error", "panic"
    todo,        \* traversal entries the run's walker has not yielded yet
    params,      \* Params: input_path and output_path of the run
    cfg,         \* Classifier: config.libmagic_used_for, the two cookies, db_root_path
    mime_map,    \* MimeInfoDb.mime_map, the cache
    calls,       \* number of process_file calls made so far
    call,        \* what the last step did (observation)
    placed,      \* the paths link_to_output made links at, in order (observation)
    firstGet,    \* mime key -> value the first get for it returned (observation)
    lastSet,     \* mime key -> extension of the most recent set for it (observation)
    diskReads,   \* mime key -> number of reads of the glob-database file (observation)
    staticReads, \* mime key -> number of lookups in the static table (observation)
    fnIn,        \* input of a pure function under check
    fnOut        \* its output

vars == <<fs, pc, todo, params, cfg, mime_map, calls, call, placed, firstGet, lastSet, diskReads, staticReads, fnIn, fnOut>>

(***************************************************************************)
(* Bounds of the model.                                                    *)
(***************************************************************************)
\* longest sequence of random suffixes one link_to_output call may draw
MaxRetries == 2
\* longest symlink target / .lns file content, in bytes
MaxBytes == 2
\* most entries below the root of a tree chosen by Init
MaxEntries == 2
\* most process_file calls of one Classifier
MaxCalls == 2
\* most link_to_output calls into one output root
MaxPlaces == 2
\* longest file name given to append_ext_if_needed, in characters
MaxNameLen == 3
\* number of regular files under the input root of a scan
MaxFiles == 2

\* rand::distributions::Alphanumeric ... take(6)
RandLen == 6

None == [some |-> FALSE, val |-> <<>>]
Some(v) == [some |-> TRUE, val |-> v]

(***************************************************************************)
(* std::path: names and paths.                                             *)
(***************************************************************************)
Dot == "."
DotDot == <<".", ".">>

\* index of the last "." of a name, 0 if there is none
RECURSIVE LastDot(_, _)
LastDot(name, i) ==
    IF i = 0 THEN 0
    ELSE IF name[i] = Dot THEN i
    ELSE LastDot(name, i - 1)

\* std rsplit_file_at_dot: (before, after) of the last dot
SplitFileAtDot(name) ==
    LET d == LastDot(name, Len(name))
    IN  IF name = DotDot THEN [before |-> Some(name), after |-> None]
        ELSE IF d = 0 THEN [before |-> None, after |-> Some(name)]
        ELSE IF d = 1 THEN [before |-> Some(name), after |-> None]
        ELSE [before |-> Some(SubSeq(name, 1, d - 1)),
              after |-> Some(SubSeq(name, d + 1, Len(name)))]

\* Path::extension of a one-component path: before.and(after)
Extension(name) ==
    LET s == SplitFileAtDot(name)
    IN  IF s.before.some THEN s.after ELSE None

\* Path::file_stem of a one-component path: before.or(after)
FileStem(name) ==
    LET s == SplitFileAtDot(name)
    IN  IF s.before.some THEN s.before ELSE s.after

\* Path::file_name: the last component, unless the path ends in ".." or is empty
FileName(path) ==
    IF path = <<>> \/ path[Len(path)] = DotDot THEN None
    ELSE Some(path[Len(path)])

IsPrefix(p, q) == Len(p) <= Len(q) /\ SubSeq(q, 1, Len(p)) = p

\* Path::strip_prefix
StripPrefix(path, base) ==
    IF IsPrefix(base, path) THEN Some(SubSeq(path, Len(base) + 1, Len(path)))
    ELSE None

\* Path::parent: None for the empty relative path
Parent(path) ==
    IF path = <<>> THEN None ELSE Some(SubSeq(path, 1, Len(path) - 1))

\* the components of a string used as a relative path: split at "/"
RECURSIVE Components(_)
Components(str) ==
    LET i == CHOOSE k \in 1..(Len(str) + 1) :
                 /\ k = Len(str) + 1 \/ str[k] = "/"
                 /\ \A j \in 1..(k - 1) : str[j] # "/"
        rest == IF i >= Len(str) THEN <<>> ELSE Components(SubSeq(str, i + 1, Len(str)))
    IN  IF str = <<>> THEN <<>>
        ELSE IF i = 1 THEN rest
        ELSE <<SubSeq(str, 1, i - 1)>> \o rest

(***************************************************************************)
(* The filesystem calls the program makes.                                 *)
(***************************************************************************)
Dir == [kind |-> "dir", data |-> <<>>]
File(bytes) == [kind |-> "file", data |-> bytes]
Link(target) == [kind |-> "symlink", data |-> target]

\* fs::symlink_metadata(path).is_ok(): an entry of any kind is at path
Exists(f, path) == path \in DOMAIN f

\* Path::is_dir
IsDir(f, path) == path \in DOMAIN f /\ f[path].kind = "dir"

Prefixes(path) == { SubSeq(path, 1, n) : n \in 1..Len(path) }

Put(f, path, entry) ==
    [p \in DOMAIN f \cup {path} |-> IF p = path THEN entry ELSE f[p]]

\* fs::create_dir_all: creates the missing directories of path, or fails and
\* changes nothing when an existing component is not a directory
CreateDirAll(f, path) ==
    IF \E p \in Prefixes(path) : Exists(f, p) /\ ~IsDir(f, p)
    THEN [ok |-> FALSE, fs |-> f]
    ELSE [ok |-> TRUE,
          fs |-> [p \in DOMAIN f \cup Prefixes(path) |->
                    IF p \in DOMAIN f THEN f[p] ELSE Dir]]

\* a symlink whose target is made canonical: a name and the ".." after it
\* are dropped
SymlinkCanonical(f, target, path) ==
    LET canonical == IF Len(target) >= 2 /\ target[Len(target)] = DotDot
                     THEN SubSeq(target, 1, Len(target) - 2)
                     ELSE target
    IN  IF \/ Exists(f, path)
           \/ path = <<>>
           \/ ~IsDir(f, SubSeq(path, 1, Len(path) - 1))
        THEN [ok |-> FALSE, fs |-> f]
        ELSE [ok |-> TRUE, fs |-> Put(f, path, Link(canonical))]

\* unix_fs::symlink(target, path): fails when an entry is at path or when the
\* parent of path is not a directory
Symlink(f, target, path) ==
    IF \/ Exists(f, path)
       \/ path = <<>>
       \/ ~IsDir(f, SubSeq(path, 1, Len(path) - 1))
    THEN [ok |-> FALSE, fs |-> f]
    ELSE [ok |-> TRUE, fs |-> Put(f, path, Link(target))]

\* fs::write(path, bytes): creates or truncates the file; fails when path is a
\* directory or its parent is not a directory
WriteFile(f, path, bytes) ==
    IF \/ path = <<>>
       \/ ~IsDir(f, SubSeq(path, 1, Len(path) - 1))
       \/ (Exists(f, path) /\ f[path].kind # "file")
    THEN [ok |-> FALSE, fs |-> f]
    ELSE [ok |-> TRUE, fs |-> Put(f, path, File(bytes))]

(***************************************************************************)
(* mime_info.rs: MimeInfoDb.                                               *)
(***************************************************************************)
Generic == [tag |-> "Generic", ext |-> <<>>]
WithExt(e) == [tag |-> "WithExt", ext |-> e]
Unknown == [tag |-> "Unknown", ext |-> <<>>]

\* the mime types of the model: two the signature sniff returns, one more that
\* only the deep inspector returns
MimeAZ == <<"a", "/", "z">>
MimeTP == <<"t", "/", "p">>
MimeAR == <<"a", "/", "r">>
QuickMimes == {MimeAZ, MimeTP}
Mimes == {MimeAZ, MimeTP, MimeAR}

\* mime_db::extensions, the built-in static table: a mime with candidates, a
\* mime listed with none, a mime that is absent
MimeDbExtensions(mime) ==
    IF mime = MimeAZ THEN Some(<< <<"e">>, <<"f">> >>)
    ELSE IF mime = MimeTP THEN Some(<<>>)
    ELSE None

\* str::trim_start_matches("*."): strips the prefix as often as it occurs
RECURSIVE TrimStartMatches(_)
TrimStartMatches(pattern) ==
    IF Len(pattern) >= 2 /\ pattern[1] = "*" /\ pattern[2] = Dot
    THEN TrimStartMatches(SubSeq(pattern, 3, Len(pattern)))
    ELSE pattern

\* what <root>/<mime>.xml can be when it is opened: no such file, a file that
\* is not text, text that is not XML, or a document whose glob elements are
\* listed in document order, each with its pattern attribute if it has one
RecMissing == [st |-> "missing", globs |-> <<>>]
RecUnreadable == [st |-> "unreadable", globs |-> <<>>]
RecMalformed == [st |-> "malformed", globs |-> <<>>]
RecDoc(globs) == [st |-> "doc", globs |-> globs]

Patterns == { <<"*", ".", "e">>, <<"*", ".">> }

Records ==
    {RecMissing, RecUnreadable, RecMalformed, RecDoc(<<>>),
     RecDoc(<<None, Some(<<"*", ".", "e">>)>>)}
    \cup { RecDoc(<<Some(p)>>) : p \in Patterns }

\* MimeInfoDb::extract_glob: the first glob element decides
ExtractGlob(globs) ==
    IF globs = <<>> THEN Generic
    ELSE IF globs[1].some THEN WithExt(TrimStartMatches(globs[1].val))
    ELSE Generic

\* MimeInfoDb::parse_mime_info; "panic" stands for the panic! of a parse error
ParseMimeInfo(rec) ==
    IF rec.st = "unreadable" THEN [panic |-> FALSE, val |-> Unknown]
    ELSE IF rec.st = "malformed" THEN [panic |-> TRUE, val |-> Unknown]
    ELSE [panic |-> FALSE, val |-> ExtractGlob(rec.globs)]

\* MimeInfoDb::load_mime_info
LoadMimeInfo(rec) ==
    IF rec.st = "missing" THEN [panic |-> FALSE, val |-> Unknown]
    ELSE ParseMimeInfo(rec)

\* a resolution that asks the static table first and opens the file of the
\* glob database only for a mime the table does not list
ResolveStaticFirst(db_root, mime, rec) ==
    LET mime_info == IF db_root THEN LoadMimeInfo(rec)
                     ELSE [panic |-> FALSE, val |-> Unknown]
        exts == MimeDbExtensions(mime)
    IN  IF exts.some
        THEN [panic |-> FALSE,
              val |-> IF Len(exts.val) > 0 THEN WithExt(exts.val[1]) ELSE Generic,
              disk |-> FALSE, static |-> TRUE]
        ELSE [panic |-> mime_info.panic, val |-> mime_info.val,
              disk |-> db_root, static |-> TRUE]

\* the closure of or_insert_with in MimeInfoDb::get: the value of a cache miss
Resolve(db_root, mime, rec) ==
    LET mime_info == IF db_root THEN LoadMimeInfo(rec)
                     ELSE [panic |-> FALSE, val |-> Unknown]
        exts == MimeDbExtensions(mime)
    IN  IF mime_info.panic
        THEN [panic |-> TRUE, val |-> Unknown, disk |-> TRUE, static |-> FALSE]
        ELSE IF mime_info.val = Unknown
        THEN [panic |-> FALSE,
              val |-> IF exts.some
                      THEN IF Len(exts.val) > 0 THEN WithExt(exts.val[1]) ELSE Generic
                      ELSE Unknown,
              disk |-> db_root, static |-> TRUE]
        ELSE [panic |-> FALSE, val |-> mime_info.val, disk |-> TRUE, static |-> FALSE]

\* a get that resolves the key again on every call
GetUncached(map, db_root, mime, rec) ==
    LET r == Resolve(db_root, mime, rec)
    IN  [panic |-> r.panic, val |-> r.val,
         map |-> IF r.panic THEN map ELSE Put(map, mime, r.val),
         disk |-> r.disk, static |-> r.static]

\* a get that resolves the key again while the cached value is Unknown
GetRetryUnknown(map, db_root, mime, rec) ==
    IF mime \in DOMAIN map /\ map[mime] # Unknown
    THEN [panic |-> FALSE, val |-> map[mime], map |-> map,
          disk |-> FALSE, static |-> FALSE]
    ELSE GetUncached(map, db_root, mime, rec)

\* MimeInfoDb::get: the cached value, or the resolved value, which it caches
Get(map, db_root, mime, rec) ==
    IF mime \in DOMAIN map
    THEN [panic |-> FALSE, val |-> map[mime], map |-> map,
          disk |-> FALSE, static |-> FALSE]
    ELSE LET r == Resolve(db_root, mime, rec)
         IN  [panic |-> r.panic, val |-> r.val,
              map |-> IF r.panic THEN map ELSE Put(map, mime, r.val),
              disk |-> r.disk, static |-> r.static]

\* a set that stores nothing
SetNothing(map, mime, ext) == map

\* a set that stores the extension under every key of the cache
SetEveryKey(map, mime, ext) ==
    [m \in DOMAIN map \cup {mime} |-> WithExt(ext)]

\* MimeInfoDb::set
Set(map, mime, ext) == Put(map, mime, WithExt(ext))

(***************************************************************************)
(* lib.rs: Classifier.                                                     *)
(***************************************************************************)
FileType(mime, ext) == [mime |-> mime, ext |-> ext]
FileTypeUnknown == FileType(None, None)

\* exts.split('/').next().unwrap(): the text before the first "/"
RECURSIVE FirstAlternative(_)
FirstAlternative(exts) ==
    IF exts = <<>> \/ Head(exts) = "/" THEN <<>>
    ELSE <<Head(exts)>> \o FirstAlternative(Tail(exts))

NoExtension == <<"?", "?", "?">>

\* what the extension-tuned cookie can answer: an error (None) or a string of
\* slash-separated candidates
ExtAnswers ==
    {None, Some(<<>>), Some(NoExtension), Some(<<"f">>), Some(<<"e", "/", "f">>)}

\* what the MIME-tuned cookie can answer: an error (None) or a mime type
MimeAnswers == {None} \cup { Some(m) : m \in Mimes }

\* what tree_magic_mini::from_filepath can answer
OracleAnswers == {None} \cup { Some(m) : m \in QuickMimes }

\* a membership test that takes every mime type for a trigger
ContainsAlways(c, mime_type) == TRUE

\* config.libmagic_used_for.contains_ref(mime_type)
Contains(c, mime_type) == mime_type \in c.used_for

\* a guard that lets the extension cookie be asked whenever it is there
ExtCookieGuardAny(c, libmagic_used) == c.cookie_ext

\* the guard of the extension cookie: Some(cookie) if libmagic_used
ExtCookieGuard(c, libmagic_used) == c.cookie_ext /\ libmagic_used

\* a guess_extension that never finds the extension of the cached value
GuessExtensionNever(mime) == None

\* guess_extension, applied to the value get returned
GuessExtension(mime) ==
    IF mime.tag = "WithExt" THEN Some(mime.ext) ELSE None

\* Classifier::process_file. oracle, refine and extres are the answers of the
\* signature sniff and of the two cookies for this path, rec is what the
\* glob-database file of the resolved mime is if get opens it. The result
\* carries the FileType, the cache afterwards and what the call did.
ProcessFile(c, map, oracle, refine, rec, extres) ==
    IF ~oracle.some
    THEN [panic |-> FALSE, ft |-> FileTypeUnknown, map |-> map,
          quick |-> None, mimeCookie |-> FALSE, extCookie |-> FALSE,
          libmagic_used |-> FALSE,
          getCalled |-> FALSE, key |-> <<>>, getVal |-> Unknown,
          setCalled |-> FALSE, setExt |-> <<>>,
          disk |-> FALSE, static |-> FALSE]
    ELSE LET mime_type == oracle.val
             mimeCookie == Contains(c, mime_type) /\ c.cookie_mime
             libmagic_used == mimeCookie /\ refine.some
             mime_type_final == IF libmagic_used THEN refine.val ELSE mime_type
             g == Get(map, c.db_root, mime_type_final, rec)
             guess == GuessExtension(g.val)
             extCookie == /\ ~g.panic
                          /\ ~guess.some
                          /\ ExtCookieGuard(c, libmagic_used)
             extOk == /\ extCookie
                      /\ extres.some
                      /\ Len(extres.val) > 0
                      /\ extres.val # NoExtension
             ext == IF guess.some THEN guess
                    ELSE IF extOk THEN Some(FirstAlternative(extres.val))
                    ELSE None
         IN  [panic |-> g.panic,
              ft |-> FileType(Some(mime_type_final), ext),
              map |-> IF extOk THEN Set(g.map, mime_type_final, ext.val) ELSE g.map,
              quick |-> oracle, mimeCookie |-> mimeCookie, extCookie |-> extCookie,
              libmagic_used |-> libmagic_used,
              getCalled |-> TRUE, key |-> mime_type_final, getVal |-> g.val,
              setCalled |-> extOk, setExt |-> IF extOk THEN ext.val ELSE <<>>,
              disk |-> g.disk, static |-> g.static]

(***************************************************************************)
(* lib.rs: link_to_output.                                                 *)
(***************************************************************************)
OUTPUT_UNKNOWN == <<"u", "n", "k", "n", "o", "w", "n">>

\* the strings thread_rng can draw in the model: RandLen equal characters
RandomStrings == { [i \in 1..RandLen |-> ch] : ch \in {"p", "q"} }

\* random_name: the random characters, then the extension with no dot
RandomName(rnd, ext) == IF ext.some THEN rnd \o ext.val ELSE rnd

\* an append_ext_if_needed that does not look at the name's extension
AppendExtAlways(file_name, ext) ==
    IF ext.some THEN file_name \o <<Dot>> \o ext.val ELSE file_name

\* append_ext_if_needed
AppendExtIfNeeded(file_name, ext) ==
    IF ext.some
    THEN LET e == Extension(file_name)
             file_ext == IF e.some THEN e.val ELSE <<>>
         IN  IF file_ext # ext.val THEN file_name \o <<Dot>> \o ext.val
             ELSE file_name
    ELSE file_name

\* an iteration that keeps the candidate name
NextNameSame(output_name, rnd, file_type) == output_name

\* one iteration of the collision loop: the next candidate name
NextName(output_name, rnd, file_type) ==
    LET stem == FileStem(output_name)
        out_ext == Extension(output_name)
    IN  IF stem.some
        THEN stem.val \o <<"-">> \o RandomName(rnd, None)
             \o (IF out_ext.some THEN <<Dot>> \o out_ext.val ELSE <<>>)
        ELSE RandomName(rnd, file_type.ext)

\* the while loop of link_to_output over the random strings rnds: the first
\* candidate no entry is at (done), or the candidate reached when rnds ran out
RECURSIVE FreshName(_, _, _, _, _)
FreshName(f, dir, output_name, rnds, file_type) ==
    IF ~Exists(f, dir \o <<output_name>>)
    THEN [done |-> TRUE, name |-> output_name, left |-> Len(rnds)]
    ELSE IF rnds = <<>>
    THEN [done |-> FALSE, name |-> output_name, left |-> 0]
    ELSE FreshName(f, dir, NextName(output_name, Head(rnds), file_type),
                   Tail(rnds), file_type)

\* a target directory that leaves out the directory of the unknown files
OutputLinkDirNoUnknown(input, input_root, output_root, file_type) ==
    LET base == output_root \o Components(IF file_type.mime.some
                                          THEN file_type.mime.val
                                          ELSE <<>>)
        input_rel == StripPrefix(input, input_root)
    IN  IF input_rel.some /\ Parent(input_rel.val).some
        THEN base \o Parent(input_rel.val).val
        ELSE base

\* a target directory that leaves out the relative directory of the input
OutputLinkDirFlat(input, input_root, output_root, file_type) ==
    output_root \o Components(IF file_type.mime.some
                              THEN file_type.mime.val
                              ELSE OUTPUT_UNKNOWN)

\* the directory the link goes to
OutputLinkDir(input, input_root, output_root, file_type) ==
    LET base == output_root \o Components(IF file_type.mime.some
                                          THEN file_type.mime.val
                                          ELSE OUTPUT_UNKNOWN)
        input_rel == StripPrefix(input, input_root)
    IN  IF input_rel.some /\ Parent(input_rel.val).some
        THEN base \o Parent(input_rel.val).val
        ELSE base

\* the name the loop starts from
OutputName(input, file_type, rnd) ==
    IF FileName(input).some
    THEN AppendExtIfNeeded(FileName(input).val, file_type.ext)
    ELSE RandomName(rnd, file_type.ext)

\* a placement that takes the first candidate and replaces what is there
LinkToOutputForce(f, input, input_root, output_root, file_type, rnd, rnds) ==
    LET dir == OutputLinkDir(input, input_root, output_root, file_type)
        d == CreateDirAll(f, dir)
        path == dir \o <<OutputName(input, file_type, rnd)>>
    IN  IF ~d.ok THEN [ok |-> FALSE, done |-> TRUE, fs |-> f, path |-> <<>>, first |-> path]
        ELSE [ok |-> TRUE, done |-> TRUE, fs |-> Put(d.fs, path, Link(input)),
              path |-> path, first |-> path]

\* link_to_output; rnd is the random string drawn for the first name, rnds
\* the ones drawn by the loop. done is FALSE when the loop needs more of them.
LinkToOutput(f, input, input_root, output_root, file_type, rnd, rnds) ==
    LET dir == OutputLinkDir(input, input_root, output_root, file_type)
        d == CreateDirAll(f, dir)
        first == dir \o <<OutputName(input, file_type, rnd)>>
        n == FreshName(d.fs, dir, OutputName(input, file_type, rnd), rnds, file_type)
        l == Symlink(d.fs, input, dir \o <<n.name>>)
    IN  IF ~d.ok
        THEN [ok |-> FALSE, done |-> rnds = <<>>, fs |-> f, path |-> <<>>, first |-> first]
        ELSE IF ~n.done \/ n.left # 0
        THEN [ok |-> FALSE, done |-> FALSE, fs |-> f, path |-> <<>>, first |-> first]
        ELSE [ok |-> l.ok, done |-> TRUE, fs |-> l.fs,
              path |-> IF l.ok THEN dir \o <<n.name>> ELSE <<>>, first |-> first]

(***************************************************************************)
(* lib.rs: BackupProcessor and RestoreProcessor.                           *)
(***************************************************************************)
Newline == 10
Nul == 0
Lns == <<"l", "n", "s">>

\* OsString::push of a suffix on the path output_root.join(rel): joining the
\* empty path leaves a trailing separator, so the suffix is a name of its own
PushStr(dst, rel, suffix) ==
    IF rel = <<>> THEN dst \o <<suffix>>
    ELSE SubSeq(dst, 1, Len(dst) - 1) \o <<dst[Len(dst)] \o suffix>>

\* unix_fs::symlink with a target read from a file: it also fails when the
\* target is empty or holds a NUL byte
SymlinkBytes(f, target, path) ==
    IF target = <<>> \/ \E i \in 1..Len(target) : target[i] = Nul
    THEN [ok |-> FALSE, fs |-> f]
    ELSE Symlink(f, target, path)

\* the path in the tree at to that mirrors path q of the tree at from
Mirror(q, from, to) == to \o SubSeq(q, Len(from) + 1, Len(q))

Done(r, dst) == [ok |-> r.ok, panic |-> FALSE, fs |-> r.fs, dst |-> dst]
Failed(f) == [ok |-> FALSE, panic |-> FALSE, fs |-> f, dst |-> <<>>]
Panicked(f) == [ok |-> FALSE, panic |-> TRUE, fs |-> f, dst |-> <<>>]

\* BackupProcessor::backup_dir
BackupDir(f, p, src_path) ==
    LET src_rel_path == StripPrefix(src_path, p.input_path)
        dst == p.output_path \o src_rel_path.val
    IN  IF ~src_rel_path.some THEN Failed(f)
        ELSE Done(CreateDirAll(f, dst), dst)

\* a backup_symlink that writes the target without the newline
BackupSymlinkNoNewline(f, p, src_path) ==
    LET src_rel_path == StripPrefix(src_path, p.input_path)
        dst == p.output_path \o src_rel_path.val
        dst_file == PushStr(dst, src_rel_path.val, <<Dot>> \o Lns)
    IN  IF ~src_rel_path.some THEN Failed(f)
        ELSE Done(WriteFile(f, dst_file, f[src_path].data), dst_file)

\* BackupProcessor::backup_symlink
BackupSymlink(f, p, src_path) ==
    LET src_rel_path == StripPrefix(src_path, p.input_path)
        dst == p.output_path \o src_rel_path.val
        link_target == f[src_path].data
        dst_file == PushStr(dst, src_rel_path.val, <<Dot>> \o Lns)
    IN  IF ~src_rel_path.some THEN Failed(f)
        ELSE Done(WriteFile(f, dst_file, link_target \o <<Newline>>), dst_file)

\* a loop body that also copies the regular files
BackupEntryResultCopying(f, p, entry) ==
    IF f[entry].kind = "dir" THEN BackupDir(f, p, entry)
    ELSE IF f[entry].kind = "symlink" THEN BackupSymlink(f, p, entry)
    ELSE LET dst == Mirror(entry, p.input_path, p.output_path)
         IN  Done(WriteFile(f, dst, f[entry].data), dst)

\* the body of the loop of run_backup for one entry
BackupEntryResult(f, p, entry) ==
    IF f[entry].kind = "dir" THEN BackupDir(f, p, entry)
    ELSE IF f[entry].kind = "symlink" THEN BackupSymlink(f, p, entry)
    ELSE Done([ok |-> TRUE, fs |-> f], <<>>)

\* RestoreProcessor::restore_dir
RestoreDir(f, p, src_path) ==
    LET src_rel_path == StripPrefix(src_path, p.input_path)
        dst == p.output_path \o src_rel_path.val
    IN  IF ~src_rel_path.some THEN Failed(f)
        ELSE Done(CreateDirAll(f, dst), dst)

\* a slice that loses every trailing newline
RECURSIVE LinkBytesTrimmed(_)
LinkBytesTrimmed(src_bytes) ==
    IF src_bytes # <<>> /\ src_bytes[Len(src_bytes)] = Newline
    THEN LinkBytesTrimmed(SubSeq(src_bytes, 1, Len(src_bytes) - 1))
    ELSE src_bytes

\* the byte slice restore_symlink links to: src_bytes without one trailing
\* newline; called with src_bytes that is not empty
LinkBytes(src_bytes) ==
    IF src_bytes[Len(src_bytes)] = Newline
    THEN SubSeq(src_bytes, 1, Len(src_bytes) - 1)
    ELSE src_bytes

\* RestoreProcessor::restore_symlink; src_bytes[src_bytes.len() - 1] panics
\* when the file is empty
RestoreSymlink(f, p, src_path) ==
    LET src_rel_path == StripPrefix(src_path, p.input_path)
        dst == p.output_path \o src_rel_path.val
        name == FileName(src_path)
        ext == IF name.some THEN Extension(name.val) ELSE None
        src_bytes == f[src_path].data
        file_stem == IF FileName(dst).some THEN FileStem(FileName(dst).val) ELSE None
        dst_file == IF file_stem.some
                    THEN SubSeq(dst, 1, Len(dst) - 1) \o <<file_stem.val>>
                    ELSE dst
    IN  IF ~src_rel_path.some THEN Failed(f)
        ELSE IF ext # Some(Lns) THEN Done([ok |-> TRUE, fs |-> f], <<>>)
        ELSE IF src_bytes = <<>> THEN Panicked(f)
        ELSE Done(SymlinkBytes(f, LinkBytes(src_bytes), dst_file), dst_file)

\* the body of the loop of run_restore for one entry
RestoreEntryResult(f, p, entry) ==
    IF f[entry].kind = "dir" THEN RestoreDir(f, p, entry)
    ELSE IF f[entry].kind = "file" THEN RestoreSymlink(f, p, entry)
    ELSE Done([ok |-> TRUE, fs |-> f], <<>>)

\* the entries WalkDir yields for a root: the root and all that is below it
WalkEntries(f, root) == { q \in DOMAIN f : IsPrefix(root, q) }

\* a walk that yields the entries in any order
NextEntriesAnyOrder(left) == left

\* the entries WalkDir can yield next: those whose directory it has yielded
NextEntries(left) ==
    { q \in left : Len(q) = 0 \/ SubSeq(q, 1, Len(q) - 1) \notin left }

(***************************************************************************)
(* The trees and configurations a run can start from.                      *)
(***************************************************************************)
InRoot == << <<"i", "n">> >>
OutRoot == << <<"o", "u", "t">> >>

NameX == <<"x">>
NameXE == <<"x", ".", "e">>
NameD == <<"d">>

FileData == <<>>

\* f with entry e at path p and the missing directories above p
WithEntry(f, p, e) == Put(CreateDirAll(f, SubSeq(p, 1, Len(p) - 1)).fs, p, e)

RECURSIVE WithEntries(_, _)
WithEntries(f, es) ==
    IF es = {} THEN f
    ELSE LET x == CHOOSE y \in es : \A z \in es : Len(y[1]) <= Len(z[1])
         IN  WithEntries(WithEntry(f, x[1], x[2]), es \ {x})

Merge(f, g) == [p \in DOMAIN f \cup DOMAIN g |-> IF p \in DOMAIN f THEN f[p] ELSE g[p]]

\* the regular files under the input root of a scan, in the order they are
\* added as MaxFiles grows; the first two get the same name when the
\* extension "e" is appended
ScanFiles ==
    << InRoot \o <<NameXE>>, InRoot \o <<NameX>>, InRoot \o <<NameD, NameX>>,
       InRoot \o <<NameD, NameXE>> >>

\* the input tree of a scan: the first MaxFiles files
ScanInput ==
    WithEntries([p \in {InRoot} |-> Dir],
                { <<ScanFiles[i], File(FileData)>> :
                    i \in 1..(IF MaxFiles < Len(ScanFiles) THEN MaxFiles ELSE Len(ScanFiles)) })

\* the output roots a scan can find: no entry, a regular file, an empty
\* directory, a directory where a regular file is in the way of a mime
\* directory, a directory where a link is in the way of a name
ScanOutputs ==
    { <<>>,
      [p \in {OutRoot} |-> File(FileData)],
      [p \in {OutRoot} |-> Dir],
      WithEntry([p \in {OutRoot} |-> Dir], OutRoot \o <<<<"a">>>>, File(FileData)),
      WithEntry([p \in {OutRoot} |-> Dir], OutRoot \o <<OUTPUT_UNKNOWN, NameXE>>, Link(InRoot)) }

\* every Config the Classifier can be built from (the cookies and
\* db_root_path are what Classifier::new and MimeInfoDb::new made of it)
Configs ==
    [used_for : SUBSET QuickMimes, cookie_mime : BOOLEAN,
     cookie_ext : BOOLEAN, db_root : BOOLEAN]

NoConfig == [used_for |-> {}, cookie_mime |-> FALSE, cookie_ext |-> FALSE, db_root |-> FALSE]

Params(input_path, output_path) == [input_path |-> input_path, output_path |-> output_path]
NoParams == Params(<<>>, <<>>)

NoCall == [op |-> "none"]

Zero == [m \in Mimes |-> 0]

\* sequences over S of length at most n
RECURSIVE SeqsUpTo(_, _)
SeqsUpTo(S, n) ==
    IF n = 0 THEN {<<>>}
    ELSE LET shorter == SeqsUpTo(S, n - 1)
         IN  shorter \cup { Append(q, x) : q \in { t \in shorter : Len(t) = n - 1 }, x \in S }

RandomSeqs == SeqsUpTo(RandomStrings, MaxRetries)

(***************************************************************************)
(* Calls of process_file and link_to_output with their inputs drawn.       *)
(***************************************************************************)
\* the results process_file can have: each oracle is asked for an answer
\* only if the call asks it
ProcessFileResults(c, map) ==
    UNION { UNION { UNION {
        { ProcessFile(c, map, o, m, rec, x) :
            x \in (IF ProcessFile(c, map, o, m, rec, None).extCookie
                   THEN ExtAnswers ELSE {None}) } :
          rec \in (IF ProcessFile(c, map, o, m, RecMissing, None).disk
                   THEN Records ELSE {RecMissing}) } :
            m \in (IF ProcessFile(c, map, o, None, RecMissing, None).mimeCookie
                   THEN MimeAnswers ELSE {None}) } :
              o \in OracleAnswers }

\* the results link_to_output can have: the loop draws as many random
\* strings as it needs, up to MaxRetries
LinkToOutputResults(f, input, input_root, output_root, file_type) ==
    UNION {
        { l \in { LinkToOutput(f, input, input_root, output_root, file_type, rnd, rnds) :
                    rnds \in (IF LinkToOutput(f, input, input_root, output_root,
                                              file_type, rnd, <<>>).done
                              THEN {<<>>} ELSE RandomSeqs) } : l.done } :
          rnd \in (IF FileName(input).some THEN {<<>>} ELSE RandomStrings) }

NoLink == [ok |-> FALSE, done |-> TRUE, fs |-> <<>>, path |-> <<>>, first |-> <<>>]

\* what a call of process_file (and of link_to_output after it) did
Observed(input, r, l, repeat) ==
    [op |-> "file", input |-> input, quick |-> r.quick,
     mimeCookie |-> r.mimeCookie, extCookie |-> r.extCookie,
     libmagic_used |-> r.libmagic_used,
     getCalled |-> r.getCalled, key |-> r.key, getVal |-> r.getVal, repeat |-> repeat,
     setCalled |-> r.setCalled, setExt |-> r.setExt,
     disk |-> r.disk, static |-> r.static, panic |-> r.panic,
     ft |-> r.ft, ok |-> l.ok, path |-> l.path, first |-> l.first]

\* the Classifier after a call of process_file with result r
Classified(r) ==
    /\ mime_map' = IF r.panic THEN mime_map ELSE r.map
    /\ calls' = calls + 1
    /\ firstGet' = IF r.getCalled /\ ~r.panic /\ r.key \notin DOMAIN firstGet
                   THEN Put(firstGet, r.key, r.getVal) ELSE firstGet
    /\ lastSet' = IF r.setCalled /\ ~r.panic
                  THEN Put(lastSet, r.key, r.setExt) ELSE lastSet
    /\ diskReads' = IF r.disk THEN [diskReads EXCEPT ![r.key] = @ + 1] ELSE diskReads
    /\ staticReads' = IF r.static THEN [staticReads EXCEPT ![r.key] = @ + 1] ELSE staticReads

(***************************************************************************)
(* lib.rs: Classifier, as a sequence of process_file calls.                *)
(***************************************************************************)
InitClassify ==
    /\ fs = <<>>
    /\ params = NoParams
    /\ cfg \in Configs
    /\ pc = "classify"
    /\ todo = {}
    /\ mime_map = <<>>
    /\ calls = 0
    /\ call = NoCall
    /\ placed = <<>>
    /\ firstGet = <<>>
    /\ lastSet = <<>>
    /\ diskReads = Zero
    /\ staticReads = Zero
    /\ fnIn = <<>>
    /\ fnOut = <<>>

\* one call of Classifier::process_file
Classify ==
    /\ pc = "classify"
    /\ calls < MaxCalls
    /\ \E r \in ProcessFileResults(cfg, mime_map) :
        /\ Classified(r)
        /\ call' = Observed(<<>>, r, NoLink, r.key \in DOMAIN firstGet)
        /\ pc' = IF r.panic THEN "panic" ELSE "classify"
    /\ UNCHANGED <<fs, todo, params, cfg, placed, fnIn, fnOut>>

NextClassify == Classify

SpecClassify == InitClassify /\ [][NextClassify]_vars

(***************************************************************************)
(* lib.rs: run_scan.                                                       *)
(***************************************************************************)
\* the Classifiers of the scans: no trigger and no cookie, or one trigger with
\* the MIME-tuned cookie and with or without the extension-tuned one
ScanConfigs ==
    { c \in Configs : \/ c.used_for = {} /\ ~c.cookie_mime /\ ~c.cookie_ext
                      \/ c.used_for = {MimeAZ} /\ c.cookie_mime }

Init ==
    /\ \E out \in ScanOutputs : fs = Merge(ScanInput, out)
    /\ params = Params(InRoot, OutRoot)
    /\ cfg \in ScanConfigs
    /\ pc = "idle"
    /\ todo = {}
    /\ mime_map = <<>>
    /\ calls = 0
    /\ call = NoCall
    /\ placed = <<>>
    /\ firstGet = <<>>
    /\ lastSet = <<>>
    /\ diskReads = Zero
    /\ staticReads = Zero
    /\ fnIn = <<>>
    /\ fnOut = <<>>

\* the entries WalkDir yields that are regular files
ScanEntries(f, input_path) ==
    { p \in DOMAIN f : IsPrefix(input_path, p) /\ f[p].kind = "file" }

\* run_scan up to the loop: Classifier::new, then the check of output_path
RunScanStart ==
    /\ pc = "idle"
    /\ IF IsDir(fs, params.output_path)
       THEN pc' = "scan" /\ todo' = ScanEntries(fs, params.input_path)
       ELSE pc' = "error" /\ todo' = todo
    /\ call' = [op |-> "start"]
    /\ UNCHANGED <<fs, params, cfg, mime_map, calls, placed, firstGet, lastSet, diskReads, staticReads, fnIn, fnOut>>

\* one iteration of the loop of run_scan: process_file, then link_to_output
\* unless process_file panicked
ScanEntry ==
    /\ pc = "scan"
    /\ \E entry \in todo, r \in ProcessFileResults(cfg, mime_map) :
        /\ Classified(r)
        /\ todo' = todo \ {entry}
        /\ IF r.panic
           THEN /\ fs' = fs
                /\ placed' = placed
                /\ pc' = "panic"
                /\ call' = Observed(entry, r, NoLink, r.key \in DOMAIN firstGet)
           ELSE \E l \in LinkToOutputResults(fs, entry, params.input_path,
                                             params.output_path, r.ft) :
                /\ fs' = l.fs
                /\ placed' = IF l.ok THEN Append(placed, l.path) ELSE placed
                /\ pc' = IF l.ok THEN "scan" ELSE "error"
                /\ call' = Observed(entry, r, l, r.key \in DOMAIN firstGet)
    /\ UNCHANGED <<params, cfg, fnIn, fnOut>>

\* the loop of run_scan is over: Ok(())
RunScanReturn ==
    /\ pc = "scan"
    /\ todo = {}
    /\ pc' = "done"
    /\ call' = [op |-> "return"]
    /\ UNCHANGED <<fs, todo, params, cfg, mime_map, calls, placed, firstGet, lastSet, diskReads, staticReads, fnIn, fnOut>>

Next == RunScanStart \/ ScanEntry \/ RunScanReturn

Spec == Init /\ [][Next]_vars

(***************************************************************************)
(* lib.rs: link_to_output, as a sequence of calls into one output root.    *)
(***************************************************************************)
RetryName == <<"x", "-">> \o [i \in 1..RandLen |-> "p"] \o <<".", "e">>

\* the output roots of the placements: empty, or with entries in the way of
\* a mime directory, of a name, of a name and of the name tried after it, of
\* the directory of the unknown files, of a relative directory
PlaceOutputs ==
    LET out == [p \in {OutRoot} |-> Dir]
        az == OutRoot \o <<<<"a">>, <<"z">>>>
    IN  { out,
          WithEntry(out, OutRoot \o <<<<"a">>>>, File(FileData)),
          WithEntry(out, az \o <<NameXE>>, File(FileData)),
          WithEntry(WithEntry(out, az \o <<NameXE>>, Link(InRoot)),
                    az \o <<RetryName>>, Dir),
          WithEntry(out, OutRoot \o <<OUTPUT_UNKNOWN, NameX>>, Dir),
          WithEntry(out, az \o <<NameD>>, File(FileData)) }

\* the paths to place: files under the input root, a path with no file
\* name, a path that is not under the input root, the input root itself
PlaceInputs ==
    { InRoot \o <<NameXE>>, InRoot \o <<NameX>>, InRoot \o <<NameD, NameX>>,
      InRoot \o <<DotDot>>, << <<"y">>, NameX >>, InRoot }

PlaceFileTypes ==
    { FileTypeUnknown, FileType(Some(MimeAZ), None),
      FileType(Some(MimeAZ), Some(<<"e">>)), FileType(Some(MimeAZ), Some(<<>>)) }

InitPlace ==
    /\ \E out \in PlaceOutputs : fs = Merge(ScanInput, out)
    /\ params = Params(InRoot, OutRoot)
    /\ cfg = NoConfig
    /\ pc = "place"
    /\ todo = {}
    /\ mime_map = <<>>
    /\ calls = 0
    /\ call = NoCall
    /\ placed = <<>>
    /\ firstGet = <<>>
    /\ lastSet = <<>>
    /\ diskReads = Zero
    /\ staticReads = Zero
    /\ fnIn = <<>>
    /\ fnOut = <<>>

\* one call of link_to_output
Place ==
    /\ pc = "place"
    /\ calls < MaxPlaces
    /\ \E input \in PlaceInputs, file_type \in PlaceFileTypes :
       \E l \in LinkToOutputResults(fs, input, params.input_path,
                                      params.output_path, file_type) :
        /\ fs' = l.fs
        /\ placed' = IF l.ok THEN Append(placed, l.path) ELSE placed
        /\ call' = [op |-> "place", input |-> input, ft |-> file_type,
                    ok |-> l.ok, path |-> l.path, first |-> l.first]
    /\ calls' = calls + 1
    /\ UNCHANGED <<pc, todo, params, cfg, mime_map, firstGet, lastSet, diskReads, staticReads, fnIn, fnOut>>

NextPlace == Place

SpecPlace == InitPlace /\ [][NextPlace]_vars

(***************************************************************************)
(* lib.rs: append_ext_if_needed, applied to one file name and extension.   *)
(***************************************************************************)
\* the file names: what Path::file_name can return, over a few characters
AppendNames ==
    SeqsUpTo({"r", "e", "E", Dot}, MaxNameLen) \ {<<>>, <<Dot>>, DotDot}

\* the extensions process_file can resolve, and none
AppendExts == {None, Some(<<"e">>), Some(<<"E">>), Some(<<"r", "e">>), Some(<<>>)}

InitAppend ==
    /\ fs = <<>>
    /\ params = NoParams
    /\ cfg = NoConfig
    /\ pc = "append"
    /\ todo = {}
    /\ mime_map = <<>>
    /\ calls = 0
    /\ call = NoCall
    /\ placed = <<>>
    /\ firstGet = <<>>
    /\ lastSet = <<>>
    /\ diskReads = Zero
    /\ staticReads = Zero
    /\ fnIn \in [name : AppendNames, ext : AppendExts]
    /\ fnOut = <<>>

\* the call of append_ext_if_needed
AppendExt ==
    /\ pc = "append"
    /\ fnOut' = AppendExtIfNeeded(fnIn.name, fnIn.ext)
    /\ pc' = "appended"
    /\ UNCHANGED <<fs, todo, params, cfg, mime_map, calls, call, placed, firstGet, lastSet,
                   diskReads, staticReads, fnIn>>

NextAppend == AppendExt

SpecAppend == InitAppend /\ [][NextAppend]_vars

(***************************************************************************)
(* lib.rs: run_backup and run_restore.                                     *)
(***************************************************************************)
ResRoot == << <<"r", "e", "s">> >>

NameA == <<"a">>
NameALns == <<"a", ".", "l", "n", "s">>

\* the bytes of the model: a newline and a byte that is no text
Bytes == {Newline, 255}

\* the targets a symlink can have: not empty, no NUL byte
LinkTargets == SeqsUpTo(Bytes, MaxBytes) \ {<<>>}

\* the contents a regular file can have
FileContents == SeqsUpTo(Bytes \cup {Nul}, MaxBytes)

\* the trees below root with entries of the given kinds, named NameA or
\* NameALns, at most two levels deep and with at most MaxEntries entries
Trees(root, kinds) ==
    LET names == {NameA, NameALns}
        paths == { root \o <<n>> : n \in names }
                 \cup { root \o <<n, m>> : n \in names, m \in names }
        sets == { ps \in SUBSET paths :
                    /\ Cardinality(ps) <= MaxEntries
                    /\ \A q \in ps : Len(q) = Len(root) + 1
                                     \/ SubSeq(q, 1, Len(q) - 1) \in ps }
    IN  UNION { { [q \in ps \cup {root} |-> IF q = root THEN Dir ELSE k[q]] :
                    k \in { h \in [ps -> kinds] :
                              \A q \in ps : Len(q) > Len(root) + 1
                                  => h[SubSeq(q, 1, Len(q) - 1)] = Dir } } :
                ps \in sets }

\* the source trees of a backup: directories, symlinks and regular files
SourceTrees ==
    Trees(InRoot, {Dir, File(FileData)} \cup { Link(t) : t \in LinkTargets })

\* the trees a restore can be given: directories and regular files
BackupTrees ==
    Trees(InRoot, {Dir} \cup { File(b) : b \in FileContents })

EmptyDir(root) == [q \in {root} |-> Dir]

InitCodec ==
    /\ \E t \in SourceTrees : fs = Merge(t, Merge(EmptyDir(OutRoot), EmptyDir(ResRoot)))
    /\ params = Params(InRoot, OutRoot)
    /\ cfg = NoConfig
    /\ pc = "backup-idle"
    /\ todo = {}
    /\ mime_map = <<>>
    /\ calls = 0
    /\ call = NoCall
    /\ placed = <<>>
    /\ firstGet = <<>>
    /\ lastSet = <<>>
    /\ diskReads = Zero
    /\ staticReads = Zero
    /\ fnIn = <<>>
    /\ fnOut = <<>>

InitRestore ==
    /\ \E t \in BackupTrees : fs = Merge(t, EmptyDir(OutRoot))
    /\ params = Params(InRoot, OutRoot)
    /\ cfg = NoConfig
    /\ pc = "restore-idle"
    /\ todo = {}
    /\ mime_map = <<>>
    /\ calls = 0
    /\ call = NoCall
    /\ placed = <<>>
    /\ firstGet = <<>>
    /\ lastSet = <<>>
    /\ diskReads = Zero
    /\ staticReads = Zero
    /\ fnIn = <<>>
    /\ fnOut = <<>>

Classifier == <<cfg, mime_map, calls, placed, firstGet, lastSet, diskReads, staticReads>>

\* what an iteration of a codec loop did
CodecCall(op, entry, kind, r) ==
    [op |-> op, input |-> entry, kind |-> kind, ok |-> r.ok, panic |-> r.panic, dst |-> r.dst]

\* run_backup up to the loop: the check of output_path
RunBackupStart ==
    /\ pc = "backup-idle"
    /\ IF IsDir(fs, params.output_path)
       THEN pc' = "backup" /\ todo' = WalkEntries(fs, params.input_path)
       ELSE pc' = "error" /\ todo' = todo
    /\ call' = [op |-> "start"]
    /\ UNCHANGED <<fs, params, Classifier, fnIn, fnOut>>

\* a loop of run_backup that goes on after an entry that failed
BackupEntryContinuing ==
    /\ pc = "backup"
    /\ \E entry \in NextEntries(todo) :
       LET r == BackupEntryResult(fs, params, entry)
       IN  /\ fs' = r.fs
           /\ todo' = todo \ {entry}
           /\ pc' = "backup"
           /\ call' = CodecCall("backup", entry, fs[entry].kind, r)
    /\ UNCHANGED <<params, Classifier, fnIn, fnOut>>

\* one iteration of the loop of run_backup
BackupEntry ==
    /\ pc = "backup"
    /\ \E entry \in NextEntries(todo) :
       LET r == BackupEntryResult(fs, params, entry)
       IN  /\ fs' = r.fs
           /\ todo' = todo \ {entry}
           /\ pc' = IF r.ok THEN "backup" ELSE "error"
           /\ call' = CodecCall("backup", entry, fs[entry].kind, r)
    /\ UNCHANGED <<params, Classifier, fnIn, fnOut>>

\* the loop of run_backup is over: Ok(())
RunBackupReturn ==
    /\ pc = "backup"
    /\ todo = {}
    /\ pc' = "backed"
    /\ call' = [op |-> "return"]
    /\ UNCHANGED <<fs, todo, params, Classifier, fnIn, fnOut>>

\* the backup is given to restore, with an empty directory to restore into
InvokeRestore ==
    /\ pc = "backed"
    /\ params' = Params(params.output_path, ResRoot)
    /\ pc' = "restore-idle"
    /\ call' = [op |-> "invoke"]
    /\ UNCHANGED <<fs, todo, Classifier, fnIn, fnOut>>

\* a run_restore that does not check output_path
RunRestoreStartUnchecked ==
    /\ pc = "restore-idle"
    /\ pc' = "restore"
    /\ todo' = WalkEntries(fs, params.input_path)
    /\ call' = [op |-> "start"]
    /\ UNCHANGED <<fs, params, Classifier, fnIn, fnOut>>

\* run_restore up to the loop: the check of output_path
RunRestoreStart ==
    /\ pc = "restore-idle"
    /\ IF IsDir(fs, params.output_path)
       THEN pc' = "restore" /\ todo' = WalkEntries(fs, params.input_path)
       ELSE pc' = "error" /\ todo' = todo
    /\ call' = [op |-> "start"]
    /\ UNCHANGED <<fs, params, Classifier, fnIn, fnOut>>

\* one iteration of the loop of run_restore
RestoreEntry ==
    /\ pc = "restore"
    /\ \E entry \in NextEntries(todo) :
       LET r == RestoreEntryResult(fs, params, entry)
       IN  /\ fs' = r.fs
           /\ todo' = todo \ {entry}
           /\ pc' = IF r.panic THEN "panic" ELSE IF r.ok THEN "restore" ELSE "error"
           /\ call' = CodecCall("restore", entry, fs[entry].kind, r)
    /\ UNCHANGED <<params, Classifier, fnIn, fnOut>>

\* the loop of run_restore is over: Ok(())
RunRestoreReturn ==
    /\ pc = "restore"
    /\ todo = {}
    /\ pc' = "done"
    /\ call' = [op |-> "return"]
    /\ UNCHANGED <<fs, todo, params, Classifier, fnIn, fnOut>>

NextCodec ==
    \/ RunBackupStart \/ BackupEntry \/ RunBackupReturn \/ InvokeRestore
    \/ RunRestoreStart \/ RestoreEntry \/ RunRestoreReturn

SpecCodec == InitCodec /\ [][NextCodec]_vars

NextRestore == RunRestoreStart \/ RestoreEntry \/ RunRestoreReturn

SpecRestore == InitRestore /\ [][NextRestore]_vars

(***************************************************************************)
(* MimeInfoDb and Classifier: the properties.                              *)
(***************************************************************************)
\* the last step was a call of process_file that called get and returned
Got(c) == c.op = "file" /\ c.getCalled /\ ~c.panic

\* C3 as claimed: the second and every later get for a mime string returns
\* the value the first get for it returned.
C3_GetReturnsFirstValue ==
    [][(Got(call') /\ call'.key \in DOMAIN firstGet)
        => call'.getVal = firstGet[call'.key]]_vars

\* C3 as amended: the second and every later get for a mime string returns
\* the value the first get for it returned unless set was called for that
\* string since; then it returns WithExt of the extension set last.
C3_GetReturnsFirstOrSetValue ==
    [][(Got(call') /\ call'.key \in DOMAIN firstGet)
        => call'.getVal = (IF call'.key \in DOMAIN lastSet
                           THEN WithExt(lastSet[call'.key])
                           ELSE firstGet[call'.key])]_vars

\* a later get that returned the extension a set stored after the first get
C3_Witness ==
    /\ Got(call) /\ call.repeat /\ ~call.setCalled
    /\ call.key \in DOMAIN lastSet
    /\ call.getVal = WithExt(lastSet[call.key])
    /\ call.getVal # firstGet[call.key]

\* C4: for every mime key the glob-database file is read at most once and
\* the static table is consulted at most once in a run; a get for a key
\* that a get or a set was called for before reads neither.
C4_SourcesConsultedAtMostOnce ==
    /\ \A m \in Mimes : diskReads[m] <= 1 /\ staticReads[m] <= 1
    /\ (Got(call) /\ call.repeat) => (~call.disk /\ ~call.static)

\* a later get for a key whose first get read the file and the static table
C4_Witness ==
    /\ Got(call) /\ call.repeat
    /\ diskReads[call.key] = 1 /\ staticReads[call.key] = 1

\* C5 as claimed: every change of a cache entry is an upgrade from Unknown
\* to a concrete value made by set, and no entry is reverted.
C5_OnlyUnknownUpgraded ==
    [][/\ \A m \in DOMAIN mime_map :
            /\ m \in DOMAIN mime_map'
            /\ mime_map'[m] # mime_map[m]
                => /\ mime_map[m] = Unknown
                   /\ mime_map'[m].tag = "WithExt"
                   /\ call'.setCalled /\ call'.key = m
       /\ (call'.op = "file" /\ call'.setCalled) => call'.getVal = Unknown]_vars

\* C5 as amended: every change of a cache entry is an upgrade from Unknown
\* or Generic to WithExt made by set; no entry is removed and no entry that
\* is WithExt changes.
C5_OnlyUpgradedToWithExt ==
    [][/\ \A m \in DOMAIN mime_map :
            /\ m \in DOMAIN mime_map'
            /\ mime_map'[m] # mime_map[m]
                => /\ mime_map[m] \in {Unknown, Generic}
                   /\ call'.setCalled /\ call'.key = m
                   /\ mime_map'[m] = WithExt(call'.setExt)
       /\ (call'.op = "file" /\ call'.setCalled) => call'.getVal \in {Unknown, Generic}]_vars

\* a set that upgraded an entry an earlier call had cached as Generic
C5_Witness ==
    /\ Got(call) /\ call.repeat /\ call.setCalled
    /\ call.getVal = Generic
    /\ firstGet[call.key] = Generic
    /\ mime_map[call.key] = WithExt(call.setExt)

\* C6: when the mime the signature sniff returns is not in the trigger set,
\* neither cookie is asked and the resolved mime is the mime of the sniff.
C6_TriggerSetGating ==
    (call.op = "file" /\ call.quick.some /\ call.quick.val \notin cfg.used_for)
        => /\ ~call.mimeCookie
           /\ ~call.extCookie
           /\ call.ft.mime = call.quick

\* a call for a mime outside the trigger set with both cookies at hand and
\* no extension from get
C6_Witness ==
    /\ Got(call) /\ call.quick.val \notin cfg.used_for
    /\ cfg.cookie_mime /\ cfg.cookie_ext /\ cfg.used_for # {}
    /\ call.getVal.tag # "WithExt"
    /\ call.ft = FileType(call.quick, None)

\* C7: process_file returns a FileType whatever the oracles answer and
\* whatever the glob-database file is; it never aborts the run.
C7_ResolveNeverFails == pc # "panic"

\* C8: when the signature sniff yields nothing, process_file returns
\* FileType{None, None}, asks no cookie, does not call get or set and leaves
\* the cache as it is, and the link goes under outputRoot/unknown.
C8_UnknownShortCircuit ==
    [][(call'.op = "file" /\ ~call'.quick.some)
        => /\ call'.ft = FileTypeUnknown
           /\ ~call'.panic
           /\ ~call'.mimeCookie /\ ~call'.extCookie
           /\ ~call'.getCalled /\ ~call'.setCalled
           /\ ~call'.disk /\ ~call'.static
           /\ mime_map' = mime_map
           /\ call'.ok => /\ IsPrefix(OutRoot \o <<OUTPUT_UNKNOWN>>, call'.path)
                          /\ Len(call'.path) > Len(OutRoot) + 1
                          /\ call'.path \notin DOMAIN fs
                          /\ fs'[call'.path] = Link(call'.input)]_vars

\* an unknown file linked under outputRoot/unknown while the cache holds a
\* value
C8_Witness ==
    /\ call.op = "file" /\ ~call.quick.some /\ call.ok
    /\ IsPrefix(OutRoot \o <<OUTPUT_UNKNOWN>>, call.path)
    /\ mime_map # <<>>

(***************************************************************************)
(* link_to_output: the properties.                                         *)
(***************************************************************************)
\* C1: a call of link_to_output makes its link only at a path where no entry
\* was, and every entry that was there before the call is there unchanged
\* after it; so the paths of the links made are distinct and all exist.
C1_NeverOverwrites ==
    [][/\ \A p \in DOMAIN fs : p \in DOMAIN fs' /\ fs'[p] = fs[p]
       /\ (call'.op = "place" /\ call'.ok)
            => /\ call'.path \notin DOMAIN fs
               /\ fs'[call'.path] = Link(call'.input)
       /\ \A i \in 1..Len(placed') :
            /\ placed'[i] \in DOMAIN fs' /\ fs'[placed'[i]].kind = "symlink"
            /\ \A j \in 1..Len(placed') : i # j => placed'[i] # placed'[j]]_vars

\* two links in one directory, the second made for the name the first took,
\* in an output root that held an entry before
C1_Witness ==
    /\ Len(placed) = 2
    /\ call.op = "place" /\ call.ok
    /\ call.first = placed[1]
    /\ placed[2] # placed[1]
    /\ Parent(placed[2]) = Parent(placed[1])
    /\ \E p \in DOMAIN fs : IsPrefix(OutRoot, p) /\ fs[p].kind = "file"

\* C9 as claimed: with ext present the name is unchanged when the name's
\* current extension equals ext and is name "." ext otherwise; with ext
\* absent the name is unchanged.
C9_AppendUnlessExtensionEqual ==
    pc = "appended"
        => fnOut = (IF ~fnIn.ext.some THEN fnIn.name
                    ELSE IF Extension(fnIn.name) = Some(fnIn.ext.val) THEN fnIn.name
                    ELSE fnIn.name \o <<Dot>> \o fnIn.ext.val)

\* C9 as amended: the name's current extension is taken as the empty string
\* when the name has no extension, so an empty ext is not appended to a
\* name without extension.
C9_AppendUnlessExtensionOrNoneEqual ==
    pc = "appended"
        => fnOut = (IF ~fnIn.ext.some THEN fnIn.name
                    ELSE IF Extension(fnIn.name) = Some(fnIn.ext.val) THEN fnIn.name
                    ELSE IF ~Extension(fnIn.name).some /\ fnIn.ext.val = <<>> THEN fnIn.name
                    ELSE fnIn.name \o <<Dot>> \o fnIn.ext.val)

\* a name that has the extension already and is left as it is
C9_Witness ==
    /\ pc = "appended"
    /\ fnIn.name = <<"r", Dot, "e">> /\ fnIn.ext = Some(<<"e">>)
    /\ fnOut = fnIn.name

(***************************************************************************)
(* Backup and restore: the properties.                                     *)
(***************************************************************************)

\* every directory and symlink of the source tree is in the restored tree,
\* at the same relative path and, for a symlink, with the same target bytes
Reproduced ==
    \A q \in DOMAIN fs :
        (IsPrefix(InRoot, q) /\ fs[q].kind \in {"dir", "symlink"})
            => /\ Mirror(q, InRoot, ResRoot) \in DOMAIN fs
               /\ fs[Mirror(q, InRoot, ResRoot)] = fs[q]

\* the source tree holds directories and symlinks only
OnlyDirsAndLinks ==
    \A q \in DOMAIN fs : IsPrefix(InRoot, q) => fs[q].kind \in {"dir", "symlink"}

\* a directory of the source tree has the name of a symlink beside it
\* followed by ".lns"
LnsNameClash ==
    \E q \in DOMAIN fs :
        /\ IsPrefix(InRoot, q) /\ Len(q) > Len(InRoot)
        /\ fs[q].kind = "symlink"
        /\ IsDir(fs, SubSeq(q, 1, Len(q) - 1) \o <<q[Len(q)] \o <<Dot>> \o Lns>>)

Ended == pc \in {"done", "error", "panic"}

\* C2 as claimed: for every source tree of directories and symlinks, backup
\* into an empty directory and restore of that backup into another empty
\* directory both run to their end and reproduce every directory and every
\* symlink with exactly its target bytes.
C2_RoundTrip ==
    (Ended /\ OnlyDirsAndLinks) => (pc = "done" /\ Reproduced)

\* C2 as amended: the same for every source tree of directories and
\* symlinks in which no directory is named like a symlink beside it followed
\* by ".lns".
C2_RoundTripWithoutNameClash ==
    (Ended /\ OnlyDirsAndLinks /\ ~LnsNameClash) => (pc = "done" /\ Reproduced)

\* a restored tree with a directory and, below it, a symlink whose target
\* is a byte that is no text followed by a newline
C2_Witness ==
    /\ pc = "done" /\ OnlyDirsAndLinks /\ Reproduced
    /\ IsDir(fs, ResRoot \o <<NameALns>>)
    /\ ResRoot \o <<NameALns, NameA>> \in DOMAIN fs
    /\ fs[ResRoot \o <<NameALns, NameA>>] = Link(<<255, Newline>>)
    /\ fs[OutRoot \o <<NameALns, NameALns>>] = File(<<255, Newline, Newline>>)

\* bytes without one trailing newline
WithoutOneNewline(bytes) ==
    IF bytes # <<>> /\ bytes[Len(bytes)] = Newline
    THEN SubSeq(bytes, 1, Len(bytes) - 1)
    ELSE bytes

\* the last step restored a regular file whose extension is "lns"
RestoredLns(c) ==
    /\ c.op = "restore" /\ c.kind = "file"
    /\ Extension(c.input[Len(c.input)]) = Some(Lns)

\* the destination of a restored file: its mirror without the ".lns"
LnsDestination(q) ==
    LET m == Mirror(q, params.input_path, params.output_path)
        name == m[Len(m)]
    IN  SubSeq(m, 1, Len(m) - 1) \o <<SubSeq(name, 1, Len(name) - 4)>>

\* C10: for every regular file with extension "lns" and every content of it,
\* the empty one included, restore_symlink decodes the file: it does not
\* abort, and the link it makes is at the destination without ".lns" and
\* points at the content without one trailing newline. (An error that
\* symlink returns, for a target no link can have or a destination that is
\* taken, is not held against it.)
C10_RestoreDecodesEveryContent ==
    [][RestoredLns(call')
        => /\ ~call'.panic
           /\ call'.ok
                => /\ call'.dst = LnsDestination(call'.input)
                   /\ call'.dst \notin DOMAIN fs
                   /\ fs'[call'.dst] = Link(WithoutOneNewline(fs[call'.input].data))]_vars

(***************************************************************************)
(* lib.rs: run_scan, run_backup and run_restore, each started on an output *)
(* path that is missing, a regular file, an empty directory or a directory *)
(* that holds entries already.                                             *)
(***************************************************************************)
\* the source trees of the backups: directories, regular files, symlinks
\* whose target is a byte that is no text, with and without a newline after
\* a source tree with a symlink, a directory named like the symlink followed
\* by ".lns", and a symlink in that directory
ClashTree ==
    WithEntries(EmptyDir(InRoot),
                { <<InRoot \o <<NameA>>, Link(<<255>>)>>,
                  <<InRoot \o <<NameALns>>, Dir>>,
                  <<InRoot \o <<NameALns, NameA>>, Link(<<255>>)>> })

RunSources ==
    Trees(InRoot, {Dir, File(FileData), Link(<<255>>), Link(<<255, Newline>>)})
    \cup {ClashTree}

\* the trees of the restores: directories and regular files whose content is
\* a target and a newline, a newline alone, or nothing
RunBackups ==
    Trees(InRoot, {Dir, File(<<255, Newline>>), File(<<Newline>>), File(<<>>)})

\* the output paths of the backups and restores: no entry, a regular file,
\* an empty directory, a directory with a regular file named NameALns, a
\* directory with a regular file named NameA
RunOutputs ==
    { <<>>,
      [p \in {OutRoot} |-> File(FileData)],
      EmptyDir(OutRoot),
      WithEntry(EmptyDir(OutRoot), OutRoot \o <<NameALns>>, File(<<255>>)),
      WithEntry(EmptyDir(OutRoot), OutRoot \o <<NameA>>, File(FileData)) }

InitBackup ==
    /\ \E t \in RunSources, out \in RunOutputs : fs = Merge(t, out)
    /\ params = Params(InRoot, OutRoot)
    /\ cfg = NoConfig
    /\ pc = "backup-idle"
    /\ todo = {}
    /\ mime_map = <<>>
    /\ calls = 0
    /\ call = NoCall
    /\ placed = <<>>
    /\ firstGet = <<>>
    /\ lastSet = <<>>
    /\ diskReads = Zero
    /\ staticReads = Zero
    /\ fnIn = <<>>
    /\ fnOut = <<>>

InitRestoreInto ==
    /\ \E t \in RunBackups, out \in RunOutputs : fs = Merge(t, out)
    /\ params = Params(InRoot, OutRoot)
    /\ cfg = NoConfig
    /\ pc = "restore-idle"
    /\ todo = {}
    /\ mime_map = <<>>
    /\ calls = 0
    /\ call = NoCall
    /\ placed = <<>>
    /\ firstGet = <<>>
    /\ lastSet = <<>>
    /\ diskReads = Zero
    /\ staticReads = Zero
    /\ fnIn = <<>>
    /\ fnOut = <<>>

\* the scans of the runs: a Classifier with no trigger, no cookie and no
\* database root
InitScan ==
    /\ \E out \in ScanOutputs : fs = Merge(ScanInput, out)
    /\ params = Params(InRoot, OutRoot)
    /\ cfg = NoConfig
    /\ pc = "idle"
    /\ todo = {}
    /\ mime_map = <<>>
    /\ calls = 0
    /\ call = NoCall
    /\ placed = <<>>
    /\ firstGet = <<>>
    /\ lastSet = <<>>
    /\ diskReads = Zero
    /\ staticReads = Zero
    /\ fnIn = <<>>
    /\ fnOut = <<>>

InitRuns == InitScan \/ InitBackup \/ InitRestoreInto

NextRuns ==
    \/ RunScanStart \/ ScanEntry \/ RunScanReturn
    \/ RunBackupStart \/ BackupEntry \/ RunBackupReturn
    \/ RunRestoreStart \/ RestoreEntry \/ RunRestoreReturn

SpecRuns == InitRuns /\ [][NextRuns]_vars

(***************************************************************************)
(* run_backup: the properties.                                             *)
(***************************************************************************)
\* the last step was the visit of an entry of the given kind by run_backup
BackedUp(c, kind) == c.op = "backup" /\ c.kind = kind

\* the path of the file that stands for the symlink at q
LnsFile(q) ==
    LET m == Mirror(q, params.input_path, params.output_path)
    IN  SubSeq(m, 1, Len(m) - 1) \o <<m[Len(m)] \o <<Dot>> \o Lns>>

\* C11 as claimed: after run_backup has visited a symlink at relative path
\* p, the destination holds a regular file at p ".lns" whose content is the
\* target bytes of the link followed by one newline byte.
C11_SymlinkEncoded ==
    [][BackedUp(call', "symlink")
        => /\ LnsFile(call'.input) \in DOMAIN fs'
           /\ fs'[LnsFile(call'.input)]
                = File(fs[call'.input].data \o <<Newline>>)]_vars

\* C11 as amended: the same unless a directory is at p ".lns" in the
\* destination; then nothing is written and the run ends with an error.
C11_SymlinkEncodedUnlessDirectory ==
    [][BackedUp(call', "symlink")
        => IF IsDir(fs, LnsFile(call'.input))
           THEN ~call'.ok /\ pc' = "error" /\ fs' = fs
           ELSE /\ call'.ok
                /\ LnsFile(call'.input) \in DOMAIN fs'
                /\ fs'[LnsFile(call'.input)]
                     = File(fs[call'.input].data \o <<Newline>>)]_vars

\* a symlink whose target ends in a newline, written over a regular file
\* that was at the path before the run
C11_Witness ==
    /\ BackedUp(call, "symlink") /\ call.ok
    /\ call.input = InRoot \o <<NameA>>
    /\ fs[call.input] = Link(<<255, Newline>>)
    /\ fs[OutRoot \o <<NameALns>>] = File(<<255, Newline, Newline>>)
    /\ pc = "backup"

\* C12: the visit of a regular file by run_backup changes nothing, and every
\* entry a visit creates or writes is the directory that mirrors the source
\* directory visited or the ".lns" file of the source symlink visited.
C12_RegularFilesSkipped ==
    [][(call'.op = "backup")
        => /\ call'.kind = "file" => (fs' = fs /\ call'.ok)
           /\ \A q \in DOMAIN fs' :
                (q \notin DOMAIN fs \/ fs'[q] # fs[q])
                    => \/ /\ call'.kind = "dir"
                          /\ q = Mirror(call'.input, params.input_path, params.output_path)
                          /\ fs'[q] = Dir
                       \/ /\ call'.kind = "symlink"
                          /\ q = LnsFile(call'.input)
                          /\ fs'[q].kind = "file"]_vars

\* a backup that is over, of a tree with a directory and a regular file in
\* it: the directory is in the output and the file is not
C12_Witness ==
    /\ pc = "backed"
    /\ IsDir(fs, InRoot \o <<NameA>>)
    /\ InRoot \o <<NameA, NameA>> \in DOMAIN fs
    /\ fs[InRoot \o <<NameA, NameA>>] = File(FileData)
    /\ IsDir(fs, OutRoot \o <<NameA>>)
    /\ OutRoot \o <<NameA, NameA>> \notin DOMAIN fs

(***************************************************************************)
(* link_to_output: the effect of a call and the path of the link.          *)
(***************************************************************************)
\* the last step was a call of link_to_output that returned Ok
Placed(c) == c.op = "place" /\ c.ok

\* C13: a call of link_to_output that returns Ok adds one symlink, whose
\* target is the input path as it was given, and the directories above the
\* link that were missing; every entry that was there is left as it was.
C13_ExactlyOneNewSymlink ==
    [][Placed(call')
        => /\ call'.path \notin DOMAIN fs
           /\ fs'[call'.path] = Link(call'.input)
           /\ \A q \in DOMAIN fs : q \in DOMAIN fs' /\ fs'[q] = fs[q]
           /\ \A q \in DOMAIN fs' \ DOMAIN fs :
                \/ q = call'.path
                \/ /\ fs'[q] = Dir
                   /\ IsPrefix(q, SubSeq(call'.path, 1, Len(call'.path) - 1))]_vars

\* a link to a path that ends in "..", made in a directory that the call
\* had to create with the directory above it
C13_Witness ==
    /\ Placed(call)
    /\ call.input = InRoot \o <<DotDot>>
    /\ Len(placed) = 1
    /\ fs[placed[1]] = Link(InRoot \o <<DotDot>>)
    /\ SubSeq(placed[1], 1, 3) = OutRoot \o <<<<"a">>, <<"z">>>>
    /\ Cardinality({ q \in DOMAIN fs : IsPrefix(OutRoot, q) }) = 4

(***************************************************************************)
(* Classifier: the extension of the extension-tuned cookie.                *)
(***************************************************************************)
\* C14: when process_file gets an extension from the extension-tuned cookie
\* for the resolved mime, the cache holds WithExt of it under that mime
\* afterwards, and every later call that resolves the same mime gets this
\* extension from get and does not ask the extension-tuned cookie.
C14_ExtensionWrittenBack ==
    [][/\ (call'.op = "file" /\ call'.extCookie /\ call'.ft.ext.some)
            => /\ call'.key \in DOMAIN mime_map'
               /\ mime_map'[call'.key] = WithExt(call'.ft.ext.val)
       /\ (Got(call') /\ call'.key \in DOMAIN lastSet)
            => /\ call'.getVal = WithExt(lastSet[call'.key])
               /\ call'.ft = FileType(Some(call'.key), Some(lastSet[call'.key]))
               /\ ~call'.extCookie]_vars

\* a later call, refined by the MIME-tuned cookie and with the
\* extension-tuned cookie at hand, that took the extension an earlier call
\* had written back over a value that carried none
C14_Witness ==
    /\ Got(call) /\ call.repeat /\ ~call.setCalled
    /\ call.libmagic_used /\ cfg.cookie_ext /\ ~call.extCookie
    /\ call.key \in DOMAIN lastSet
    /\ firstGet[call.key] = Unknown
    /\ call.ft.ext = Some(lastSet[call.key])

(***************************************************************************)
(* mime_info.rs: MimeInfoDb::get, applied to one cache, mime and file.     *)
(***************************************************************************)
\* what <root>/<mime>.xml can be, with more documents than Records has: a
\* pattern without "*.", a pattern that starts with "*." twice, a glob
\* without pattern after one with a pattern
GetRecords ==
    Records \cup { RecDoc(<<Some(<<"g">>)>>),
                   RecDoc(<<Some(<<"*", ".", "*", ".", "e">>)>>),
                   RecDoc(<<Some(<<"*", ".", "e">>), None>>) }

\* the caches get is called on: empty, or with a value for one mime
GetMaps == { <<>>, [m \in {MimeAZ} |-> Unknown] }

InitGet ==
    /\ fs = <<>>
    /\ params = NoParams
    /\ cfg = NoConfig
    /\ pc = "get"
    /\ todo = {}
    /\ mime_map = <<>>
    /\ calls = 0
    /\ call = NoCall
    /\ placed = <<>>
    /\ firstGet = <<>>
    /\ lastSet = <<>>
    /\ diskReads = Zero
    /\ staticReads = Zero
    /\ fnIn \in [map : GetMaps, db_root : BOOLEAN, mime : Mimes, rec : GetRecords]
    /\ fnOut = <<>>

\* the call of MimeInfoDb::get
GetCall ==
    /\ pc = "get"
    /\ fnOut' = Get(fnIn.map, fnIn.db_root, fnIn.mime, fnIn.rec)
    /\ pc' = IF fnOut'.panic THEN "panic" ELSE "got"
    /\ UNCHANGED <<fs, todo, params, cfg, mime_map, calls, call, placed, firstGet, lastSet,
                   diskReads, staticReads, fnIn>>

NextGet == GetCall

SpecGet == InitGet /\ [][NextGet]_vars

\* C15: on a cache miss, a glob-database file that is there and can be read
\* decides: the value is WithExt or Generic, Generic when the document has
\* no glob element, and the static table is not consulted. With no usable
\* database root or a file that is missing or cannot be read, the static
\* table is consulted: WithExt of its first candidate, Generic when it
\* lists the mime with no candidate, Unknown when it does not list the mime.
C15_ResolutionOrder ==
    (pc = "got" /\ fnIn.mime \notin DOMAIN fnIn.map)
        => LET exts == MimeDbExtensions(fnIn.mime)
               noRecord == ~fnIn.db_root \/ fnIn.rec.st \in {"missing", "unreadable"}
           IN  IF noRecord
               THEN /\ fnOut.static
                    /\ fnOut.val = (IF exts.some /\ Len(exts.val) > 0
                                    THEN WithExt(exts.val[1])
                                    ELSE IF exts.some THEN Generic
                                    ELSE Unknown)
               ELSE /\ ~fnOut.static
                    /\ fnOut.val.tag \in {"WithExt", "Generic"}
                    /\ fnIn.rec.globs = <<>> => fnOut.val = Generic

\* a document without glob element decides for Generic, for a mime the
\* static table has candidates for
C15_Witness ==
    /\ pc = "got"
    /\ fnIn.map = <<>> /\ fnIn.db_root
    /\ fnIn.mime = MimeAZ /\ fnIn.rec = RecDoc(<<>>)
    /\ fnOut.val = Generic /\ ~fnOut.static

(***************************************************************************)
(* The runs: how they end on an error.                                     *)
(***************************************************************************)
\* a run is at its entry
AtEntry == pc \in {"idle", "backup-idle", "restore-idle"}

\* C16: when output_path is missing or is no directory, run_scan, run_backup
\* and run_restore go from their entry to the error return: no entry of the
\* traversal is processed, before or after, and the filesystem is as it was.
C16_PreconditionFailure ==
    [][/\ (AtEntry /\ ~IsDir(fs, params.output_path))
            => /\ pc' = "error"
               /\ fs' = fs
               /\ call'.op = "start"
               /\ calls' = calls /\ todo' = {}
       /\ pc # "error"]_vars

\* a run_restore of a tree with a ".lns" file that ended at once because
\* output_path is a regular file
C16_Witness ==
    /\ pc = "error" /\ call.op = "start"
    /\ DOMAIN fs = {InRoot, InRoot \o <<NameALns>>, OutRoot}
    /\ fs[InRoot \o <<NameALns>>] = File(<<255, Newline>>)
    /\ fs[OutRoot] = File(FileData)

\* the last step was the processing of an entry that returned an error
EntryFailed(c) ==
    /\ c.op \in {"file", "backup", "restore"}
    /\ ~c.ok /\ ~c.panic

\* C17: in run_scan, run_backup and run_restore an entry whose processing
\* returns an error ends the run with the error return; no step of the run
\* follows, so no later entry is processed and nothing is undone: the
\* entries on disk before the failing entry are there after it, and no step
\* of a run removes an entry.
C17_FailFast ==
    [][/\ EntryFailed(call')
            => /\ pc' = "error"
               /\ \A q \in DOMAIN fs : q \in DOMAIN fs' /\ fs'[q] = fs[q]
       /\ pc' = "error" => (call'.op = "start" \/ EntryFailed(call'))
       /\ DOMAIN fs \subseteq DOMAIN fs'
       /\ pc # "error"]_vars

\* a run_backup that ended at its second entry: the file written for the
\* first entry is on disk and the third entry is not processed
C17_Witness ==
    /\ pc = "error"
    /\ EntryFailed(call) /\ call.op = "backup"
    /\ call.input = InRoot \o <<NameALns>>
    /\ todo = {InRoot \o <<NameALns, NameA>>}
    /\ OutRoot \o <<NameALns>> \in DOMAIN fs
    /\ fs[OutRoot \o <<NameALns>>] = File(<<255, Newline>>)
    /\ OutRoot \o <<NameALns, NameALns>> \notin DOMAIN fs

(***************************************************************************)
(* Classifier: when the extension-tuned cookie is asked.                   *)
(***************************************************************************)
\* C18: in a call of process_file the extension-tuned cookie is asked only
\* if the MIME-tuned cookie was asked in the call and answered, and get did
\* not return WithExt for the resolved mime. When the MIME-tuned cookie was
\* not asked or did not answer, the extension-tuned cookie is not asked,
\* and the result is the mime of the signature sniff with the extension of
\* the value get returned, or with none.
C18_ExtensionCookieGating ==
    (call.op = "file")
        => /\ call.extCookie
                => /\ call.mimeCookie /\ call.libmagic_used
                   /\ cfg.cookie_mime /\ cfg.cookie_ext
                   /\ call.getVal.tag # "WithExt"
           /\ (call.quick.some /\ ~call.libmagic_used)
                => /\ ~call.extCookie
                   /\ ~call.setCalled
                   /\ ~call.panic
                        => /\ call.ft.mime = call.quick
                           /\ call.ft.ext = (IF call.getVal.tag = "WithExt"
                                             THEN Some(call.getVal.ext)
                                             ELSE None)

\* a call in which the MIME-tuned cookie was asked and failed: with the
\* extension-tuned cookie at hand and no extension from get, the result has
\* the mime of the sniff and no extension
C18_Witness ==
    /\ call.op = "file" /\ ~call.panic
    /\ call.mimeCookie /\ ~call.libmagic_used
    /\ cfg.cookie_ext /\ ~call.extCookie
    /\ call.getVal = Generic
    /\ call.ft = FileType(call.quick, None)

(***************************************************************************)
(* link_to_output: the directory and the name of the link.                 *)
(***************************************************************************)
\* the directory claimed for a call: the output root, the mime or "unknown",
\* and the directory of the input below the input root, if it is below it
\* and is not the input root itself
TargetDir(c) ==
    LET root == params.input_path
        rel == SubSeq(c.input, Len(root) + 1, Len(c.input))
        R == IF IsPrefix(root, c.input) /\ rel # <<>>
             THEN SubSeq(rel, 1, Len(rel) - 1)
             ELSE <<>>
    IN  params.output_path
        \o Components(IF c.ft.mime.some THEN c.ft.mime.val ELSE OUTPUT_UNKNOWN)
        \o R

\* C19: the link of a call of link_to_output is made in the directory
\* output root / mime or "unknown" / relative directory of the input, and
\* the first name is tried there; the directory is there after a call that
\* returns Ok, and a call that cannot create it changes nothing.
C19_TargetDirectory ==
    [][(call'.op = "place")
        => /\ call'.first = TargetDir(call') \o <<call'.first[Len(call'.first)]>>
           /\ call'.ok
                => /\ call'.path = TargetDir(call') \o <<call'.path[Len(call'.path)]>>
                   /\ IsDir(fs', TargetDir(call'))
           /\ ~IsDir(fs', TargetDir(call')) => (~call'.ok /\ fs' = fs)]_vars

\* a link for a file in a directory below the input root, made in that
\* directory below the mime directory, which the call created
C19_Witness ==
    /\ Placed(call)
    /\ call.input = InRoot \o <<NameD, NameX>>
    /\ call.ft = FileType(Some(MimeAZ), None)
    /\ call.path = OutRoot \o <<<<"a">>, <<"z">>, NameD, NameX>>
    /\ Len(placed) = 1

\* C20: for an input path with no file name, the name link_to_output starts
\* from is RandLen random characters, followed, when the FileType has an
\* extension, by "." and the extension, so that the extension of the name
\* is that extension.
C20_SynthesizedNameHasExtension ==
    [][(call'.op = "place" /\ ~FileName(call'.input).some)
        => LET name == call'.first[Len(call'.first)]
               ext == call'.ft.ext
           IN  IF ext.some
               THEN /\ Len(name) = RandLen + 1 + Len(ext.val)
                    /\ SubSeq(name, RandLen + 1, Len(name)) = <<Dot>> \o ext.val
                    /\ Extension(name) = ext
               ELSE Len(name) = RandLen]_vars

(***************************************************************************)
(* run_backup and run_restore: the order of the entries.                   *)
(***************************************************************************)
\* the last step was the visit, by run_backup or run_restore, of an entry
\* below the input root that has a destination path
Mirrored(c) ==
    /\ c.op \in {"backup", "restore"}
    /\ c.input # params.input_path
    /\ c.dst # <<>>

\* C21: with a walk that yields every directory before its contents, when
\* run_backup writes a ".lns" file or creates a directory, and when
\* run_restore makes a symlink or creates a directory, the directory above
\* the destination path is in the destination tree already; a step that
\* fails has it too, so none fails for a missing directory above.
C21_ParentBeforeChild ==
    [][Mirrored(call')
        => /\ IsPrefix(params.output_path, call'.dst)
           /\ IsDir(fs, SubSeq(call'.dst, 1, Len(call'.dst) - 1))]_vars

\* a symlink that run_restore made two levels below the output root, in a
\* directory it had created before
C21_Witness ==
    /\ call.op = "restore" /\ call.kind = "file" /\ call.ok
    /\ call.dst = OutRoot \o <<NameALns, NameA>>
    /\ call.dst \in DOMAIN fs
    /\ fs[call.dst] = Link(<<255>>)

(***************************************************************************)
(* lib.rs: the while loop of link_to_output, one iteration at a step.      *)
(***************************************************************************)
\* the names the loop can start from: those link_to_output makes of the
\* paths and file types of the placements, a name that starts with a dot,
\* a name that ends with one
LoopNames ==
    { OutputName(input, file_type, rnd) :
        input \in PlaceInputs, file_type \in PlaceFileTypes, rnd \in RandomStrings }
    \cup { <<Dot, "e">>, <<"x", Dot>> }

\* the name and the names that follow it when the same random string is
\* drawn n times
RECURSIVE Retries(_, _, _)
Retries(name, rnd, n) ==
    IF n = 0 THEN {name}
    ELSE {name} \cup Retries(NextName(name, rnd, FileTypeUnknown), rnd, n - 1)

LoopDir == OutRoot \o <<OUTPUT_UNKNOWN>>

\* the directory with links of the given names in it
DirOf(names) ==
    [p \in {OutRoot, LoopDir} \cup { LoopDir \o <<n>> : n \in names } |->
        IF p \in {OutRoot, LoopDir} THEN Dir ELSE Link(InRoot)]

\* the loop is entered with a name and a directory that holds nothing, or the
\* name and up to MaxRetries names that follow it
InitLoop ==
    /\ \E name \in LoopNames, rnd \in RandomStrings, n \in 0..(MaxRetries + 1) :
        /\ fs = DirOf(IF n = 0 THEN {} ELSE Retries(name, rnd, n - 1))
        /\ fnIn = [dir |-> LoopDir, name |-> name, file_type |-> FileTypeUnknown]
        /\ fnOut = name
    /\ params = Params(InRoot, OutRoot)
    /\ cfg = NoConfig
    /\ pc = "loop"
    /\ todo = {}
    /\ mime_map = <<>>
    /\ calls = 0
    /\ call = NoCall
    /\ placed = <<>>
    /\ firstGet = <<>>
    /\ lastSet = <<>>
    /\ diskReads = Zero
    /\ staticReads = Zero

\* an iteration of the loop: an entry is at the candidate name, the next one
\* is made with a random string
LoopTurn ==
    /\ pc = "loop"
    /\ Exists(fs, fnIn.dir \o <<fnOut>>)
    /\ \E rnd \in RandomStrings : fnOut' = NextName(fnOut, rnd, fnIn.file_type)
    /\ calls' = calls + 1
    /\ UNCHANGED <<fs, pc, todo, params, cfg, mime_map, call, placed, firstGet, lastSet,
                   diskReads, staticReads, fnIn>>

\* the loop is left: no entry is at the candidate name
LoopExit ==
    /\ pc = "loop"
    /\ ~Exists(fs, fnIn.dir \o <<fnOut>>)
    /\ pc' = "named"
    /\ UNCHANGED <<fs, todo, params, cfg, mime_map, calls, call, placed, firstGet, lastSet,
                   diskReads, staticReads, fnIn, fnOut>>

NextLoop == LoopTurn \/ LoopExit

\* the loop runs on: the thread is not stopped between iterations
SpecLoop == InitLoop /\ [][NextLoop]_vars /\ WF_vars(NextLoop)

\* C22: the loop of link_to_output is left for every choice of the random
\* strings: each candidate is the stem of the one before, "-", RandLen random
\* characters and the extension of the one before, so it is longer than the
\* one before, and the loop makes no more turns than the directory has
\* entries.
C22_LoopTerminates ==
    /\ [][(calls' = calls + 1)
            => /\ Len(fnOut') = Len(fnOut) + 1 + RandLen
               /\ Extension(fnOut') = Extension(fnOut)
               /\ IsPrefix(FileStem(fnOut).val \o <<"-">>, fnOut')
               /\ calls' <= Cardinality({ q \in DOMAIN fs :
                                            IsPrefix(fnIn.dir, q) /\ q # fnIn.dir })]_vars
    /\ <>(pc = "named")

\* the loop left after as many turns as the directory has entries, with a
\* name that is longer by as many random strings
C22_Witness ==
    /\ pc = "named"
    /\ calls = MaxRetries + 1
    /\ Cardinality(DOMAIN fs) = MaxRetries + 3
    /\ fnIn.name = NameXE
    /\ Len(fnOut) = Len(fnIn.name) + calls * (1 + RandLen)
    /\ fnIn.dir \o <<fnOut>> \notin DOMAIN fs

(***************************************************************************)
(* Classifier: cache entries that carry an extension.                      *)
(***************************************************************************)
\* the cache holds an extension under the key
HoldsExt(map, m) == m \in DOMAIN map /\ map[m].tag = "WithExt"

\* C23: once the cache holds WithExt(e) for a mime key it holds WithExt(e)
\* for that key after every later call of process_file: a call calls set for
\* a key only if its get for that key returned Generic or Unknown, never for
\* a key the cache held an extension for, so no WithExt entry is overwritten,
\* not even by another extension.
C23_WithExtKept ==
    [][/\ \A m \in Mimes :
            HoldsExt(mime_map, m)
                => HoldsExt(mime_map', m) /\ mime_map'[m].ext = mime_map[m].ext
       /\ (call'.op = "file" /\ call'.setCalled)
            => /\ call'.getCalled
               /\ call'.getVal.tag \in {"Generic", "Unknown"}
               /\ ~HoldsExt(mime_map, call'.key)]_vars

\* a later call for a key whose first get resolved an extension: the call
\* was refined by the MIME-tuned cookie and had the extension-tuned cookie
\* at hand, did not call set, and the cache holds the extension still
C23_Witness ==
    /\ Got(call) /\ call.repeat
    /\ call.libmagic_used /\ cfg.cookie_ext
    /\ ~call.extCookie /\ ~call.setCalled
    /\ firstGet[call.key].tag = "WithExt"
    /\ call.key \notin DOMAIN lastSet
    /\ mime_map[call.key] = firstGet[call.key]
    /\ call.ft.ext = Some(firstGet[call.key].ext)

====
